---- MODULE Spec2Model ----
(***************************************************************************)
(* Model of the PM internship recommendation backend:                      *)
(*   Backend/app/services/recommendation_engine.py  (RecommendationEngine) *)
(*   Backend/app/main.py                            (FastAPI handlers)     *)
(*                                                                         *)
(* Text is modelled character by character: a string is a tuple of         *)
(* one-character strings, so that Python's `in`, str.lower, str.strip,     *)
(* str.split and the regular expressions of pandas/sklearn are computed    *)
(* as the libraries compute them.  Floating point numbers are modelled in  *)
(* fixed point: similarity and scores in thousandths, match_score in       *)
(* tenths, TF-IDF weights in hundredths.                                   *)
(***************************************************************************)
EXTENDS Integers, Sequences, FiniteSets, TLC

\* Python's None is the empty option, a value v that is present is <<v>>
None == <<>>
Some(v) == <<v>>

\* a missing cell of a DataFrame (NaN); no text equals it
NaN == <<"nan">>

(***************************************************************************)
(* Bounds of the model.                                                    *)
(***************************************************************************)
\* catalogs of up to MaxRows rows are enumerated exhaustively
MaxRows == 2

(***************************************************************************)
(* Python string operations.                                               *)
(***************************************************************************)
Range(f) == {f[i] : i \in DOMAIN f}

Min(a, b) == IF a <= b THEN a ELSE b
Max(a, b) == IF a >= b THEN a ELSE b

UpperCase == <<"A","B","C","D","E","F","G","H","I","J","K","L","M",
               "N","O","P","Q","R","S","T","U","V","W","X","Y","Z">>
LowerCase == <<"a","b","c","d","e","f","g","h","i","j","k","l","m",
               "n","o","p","q","r","s","t","u","v","w","x","y","z">>
Digits == {"0","1","2","3","4","5","6","7","8","9"}

\* str.lower() on one character
LowerChar(c) ==
    IF \E i \in 1..26 : UpperCase[i] = c
    THEN LowerCase[CHOOSE i \in 1..26 : UpperCase[i] = c]
    ELSE c

\* str.lower()
Lower(s) == [i \in 1..Len(s) |-> LowerChar(s[i])]

\* a character of the regular expression class \w
IsWordChar(c) == c \in Range(LowerCase) \cup Range(UpperCase) \cup Digits \cup {"_"}

\* Python's `sub in s` on strings
Contains(sub, s) ==
    \E k \in 0..(Len(s) - Len(sub)) :
        \A i \in 1..Len(sub) : s[k + i] = sub[i]

\* str.strip(): drops leading and trailing blanks
RECURSIVE LStrip(_)
LStrip(s) == IF s # <<>> /\ Head(s) = " " THEN LStrip(Tail(s)) ELSE s
RECURSIVE RStrip(_)
RStrip(s) == IF s # <<>> /\ s[Len(s)] = " " THEN RStrip(SubSeq(s, 1, Len(s) - 1)) ELSE s
Strip(s) == RStrip(LStrip(s))

\* str.split(sep) for a one-character separator: ''.split(',') is ['']
RECURSIVE SplitAcc(_, _, _)
SplitAcc(s, sep, cur) ==
    IF s = <<>> THEN <<cur>>
    ELSE IF Head(s) = sep THEN <<cur>> \o SplitAcc(Tail(s), sep, <<>>)
    ELSE SplitAcc(Tail(s), sep, Append(cur, Head(s)))
Split(s, sep) == SplitAcc(s, sep, <<>>)

\* sep.join(parts)
RECURSIVE Join(_, _)
Join(parts, sep) ==
    IF parts = <<>> THEN <<>>
    ELSE IF Len(parts) = 1 THEN parts[1]
    ELSE parts[1] \o sep \o Join(Tail(parts), sep)

(***************************************************************************)
(* sklearn: TfidfVectorizer(stop_words='english', max_features=1000) and   *)
(* cosine_similarity.                                                      *)
(***************************************************************************)
\* the words of sklearn's English stop word list that the modelled texts use
StopWords == { <<"t","h","e">>, <<"a","n","d">>, <<"o","f">>, <<"i","n">>,
               <<"f","o","r">>, <<"n","o","t">>, <<"i","t">>, <<"t","o">> }

\* token_pattern (?u)\b\w\w+\b on the lowercased text: the maximal runs of
\* word characters that are at least two characters long
RECURSIVE WordRuns(_, _)
WordRuns(s, cur) ==
    IF s = <<>> THEN (IF Len(cur) >= 2 THEN <<cur>> ELSE <<>>)
    ELSE IF IsWordChar(Head(s)) THEN WordRuns(Tail(s), Append(cur, Head(s)))
    ELSE (IF Len(cur) >= 2 THEN <<cur>> ELSE <<>>) \o WordRuns(Tail(s), <<>>)

\* the analyzer: lowercase, tokenize, drop stop words
Analyze(text) == SelectSeq(WordRuns(Lower(text), <<>>), LAMBDA w : w \notin StopWords)

\* number of occurrences of term t in a token sequence
TermCount(t, toks) == Cardinality({i \in DOMAIN toks : toks[i] = t})

\* 100 * ln(k) for k = 1..12, rounded
LnCenti == <<0, 69, 110, 139, 161, 179, 195, 208, 220, 230, 240, 248>>

\* smooth idf of a term in hundredths: ln((1 + n) / (1 + df)) + 1
Idf(n, df) == 100 + LnCenti[1 + n] - LnCenti[1 + df]

\* the vocabulary of a corpus
Vocabulary(docs) == UNION {Range(Analyze(docs[i])) : i \in DOMAIN docs}

\* TfidfVectorizer.fit: the fitted state (vocabulary_ and idf_).  On an
\* empty vocabulary sklearn raises ValueError("empty vocabulary; perhaps the
\* documents only contain stop words") instead (see FitRaises).  The
\* modelled vocabularies stay far below max_features, so no term is pruned.
Fit(docs) ==
    LET vocab == Vocabulary(docs)
        df(t) == Cardinality({i \in DOMAIN docs : t \in Range(Analyze(docs[i]))})
    IN  [vocabulary |-> vocab,
         idf |-> [t \in vocab |-> Idf(Len(docs), df(t))]]

\* TfidfVectorizer.transform of one document: tf * idf over the fitted
\* vocabulary (terms outside it contribute nothing).  sklearn also divides
\* the row by its L2 norm; cosine_similarity normalises again, so the model
\* keeps the row unnormalised and normalises once, in CosineSimilarity.
Transform(vec, text) ==
    LET toks == Analyze(text)
    IN  [t \in vec.vocabulary |-> TermCount(t, toks) * vec.idf[t]]

\* integer square root
RECURSIVE IsqrtBetween(_, _, _)
IsqrtBetween(n, lo, hi) ==
    IF lo >= hi THEN lo
    ELSE LET mid == (lo + hi + 1) \div 2
         IN  IF mid * mid <= n THEN IsqrtBetween(n, mid, hi)
             ELSE IsqrtBetween(n, lo, mid - 1)
Isqrt(n) == IsqrtBetween(n, 0, Min(n, 46340))

RECURSIVE SumOver(_, _)
SumOver(f, S) ==
    IF S = {} THEN 0
    ELSE LET t == CHOOSE x \in S : TRUE
         IN  f[t] + SumOver(f, S \ {t})

Dot(u, v) == SumOver([t \in DOMAIN u |-> u[t] * v[t]], DOMAIN u)

\* cosine_similarity of two rows, in thousandths; 0 when either is all-zero.
\* The norms are rounded down, so the quotient is capped at 1.
CosineSimilarity(u, v) ==
    LET nu == Isqrt(Dot(u, u))
        nv == Isqrt(Dot(v, v))
    IN  IF nu = 0 \/ nv = 0 THEN 0
        ELSE Min(1000, (((Dot(u, v) * 100) \div nu) * 10) \div nv)

(***************************************************************************)
(* Data: the rows a CSV file can hold and the profiles a request can       *)
(* carry.  A missing cell is NaN after pd.read_csv.                        *)
(***************************************************************************)
Python == <<"P","y","t","h","o","n">>
React == <<"R","e","a","c","t">>
SQL == <<"S","Q","L">>
Tech == <<"T","e","c","h">>
Bank == <<"B","a","n","k">>
IT == <<"I","T">>
Delhi == <<"D","e","l","h","i">>
Pune == <<"P","u","n","e">>
Data == <<"D","a","t","a">>
Undergraduate == <<"U","n","d","e","r","g","r","a","d","u","a","t","e">>
Graduate == <<"G","r","a","d","u","a","t","e">>
Postgraduate == <<"P","o","s","t","g","r","a","d","u","a","t","e">>
Diploma == <<"D","i","p","l","o","m","a">>
HighSchool == <<"H","i","g","h"," ","S","c","h","o","o","l">>

Posting1 == [id |-> "INT001", sector |-> Tech, location |-> Delhi,
             description |-> <<"w","e","b"," ","a","p","p","s">>,
             required_skills |-> <<"P","y","t","h","o","n",",","R","e","a","c","t">>,
             education_requirement |-> Undergraduate]
Posting2 == [id |-> "INT002", sector |-> Tech, location |-> Pune,
             description |-> <<"d","a","t","a">>,
             required_skills |-> SQL,
             education_requirement |-> Postgraduate]
Posting3 == [id |-> "INT003", sector |-> Bank, location |-> Delhi,
             description |-> NaN,
             required_skills |-> NaN,
             education_requirement |-> NaN]
\* a row whose text holds stop words only
Posting4 == [id |-> "INT004", sector |-> IT, location |-> NaN,
             description |-> <<"t","h","e">>,
             required_skills |-> NaN,
             education_requirement |-> Diploma]
Posting5 == [id |-> "INT005", sector |-> Bank, location |-> Pune,
             description |-> <<"w","e","b">>,
             required_skills |-> React,
             education_requirement |-> Graduate]
Posting6 == [id |-> "INT006", sector |-> Tech, location |-> Delhi,
             description |-> <<"d","a","t","a"," ","a","p","p","s">>,
             required_skills |-> <<"S","Q","L",",","P","y","t","h","o","n">>,
             education_requirement |-> Undergraduate]

\* the rows of the exhaustively enumerated catalogs
Postings == {Posting1, Posting2, Posting3}

\* catalogs longer than the 5 recommendations a request returns
LongCatalog1 == <<Posting1, Posting2, Posting3, Posting1, Posting2, Posting5, Posting6>>
LongCatalog2 == <<Posting1, Posting3, Posting4, Posting1, Posting3, Posting5>>
\* a catalog without any term for the index
StopWordCatalog == <<Posting4>>

\* the file does not exist or cannot be parsed: pd.read_csv raises
Unreadable == [readable |-> FALSE, rows |-> <<>>]
CsvFile(rows) == [readable |-> TRUE, rows |-> rows]

\* what internships.csv can hold when load_data runs; <<>> is a file with
\* a header line and no rows
Files ==
    {Unreadable, CsvFile(LongCatalog1), CsvFile(LongCatalog2), CsvFile(StopWordCatalog)}
        \cup {CsvFile(rows) : rows \in UNION {[1..n -> Postings] : n \in 0..MaxRows}}

EducationLevels == {"high_school", "diploma", "undergraduate", "graduate", "postgraduate"}

\* UserProfile values that pass the pydantic validation of schemas.py
Profile(education_level, skills, experience_years) ==
    [education_level |-> education_level,
     field_of_study |-> Data,
     skills |-> skills,
     preferred_sectors |-> <<Tech>>,
     preferred_location |-> Delhi,
     experience_years |-> experience_years]

Profiles ==
    {Profile(e, sk, 0) : e \in EducationLevels, sk \in {<<Python, React>>, <<SQL>>}}
        \cup {Profile("undergraduate", <<Python>>, 1), Profile("postgraduate", <<SQL>>, 3)}

(***************************************************************************)
(* RecommendationEngine: the shared state.                                 *)
(***************************************************************************)
VARIABLES
    internships_df,     \* None or Some(sequence of rows), in catalog order
    vectorizer,         \* the TfidfVectorizer: fitted vocabulary and idf
    skills_vectors,     \* None or Some(sequence of TF-IDF rows)
    is_loaded,
    \* the locals of the last get_recommendations call, kept for observation
    user_profile,           \* None or Some(profile)
    similarity_scores,      \* one score per row of skills_vectors
    filtered_internships,   \* result of _apply_filters
    widened,                \* _apply_filters took its empty-set fallback
    scored_internships,     \* result of _score_internships (sorted)
    \* the outcome of the last operation
    response,
    \* where a load_data call that runs step by step stands: "idle" (no call
    \* in progress), "read" (lines 28-58 done) or "prepared" (line 61 done)
    load_pc

engine == <<internships_df, vectorizer, skills_vectors, is_loaded>>
locals == <<user_profile, similarity_scores, filtered_internships, widened,
            scored_internships>>
vars == <<internships_df, vectorizer, skills_vectors, is_loaded,
          user_profile, similarity_scores, filtered_internships, widened,
          scored_internships, response, load_pc>>

\* RecommendationEngine.__init__
Unfitted == [fitted |-> FALSE, vocabulary |-> {}, idf |-> [t \in {} |-> 0]]

(***************************************************************************)
(* load_data and _prepare_features.                                        *)
(***************************************************************************)
General == <<"G","e","n","e","r","a","l">>
LocationTBD == <<"L","o","c","a","t","i","o","n"," ","T","B","D">>
DescriptionNotAvailable == <<"D","e","s","c","r","i","p","t","i","o","n"," ","n","o","t"," ","a","v","a","i","l","a","b","l","e">>
NotSpecified == <<"N","o","t"," ","s","p","e","c","i","f","i","e","d">>

\* Series.fillna(default) on one cell
FillNa(cell, default) == IF cell = NaN THEN default ELSE cell

\* pd.read_csv and the fillna defaults of load_data
ReadRows(file) ==
    [i \in 1..Len(file.rows) |->
        LET r == file.rows[i]
        IN  [id |-> r.id,
             sector |-> FillNa(r.sector, General),
             location |-> FillNa(r.location, LocationTBD),
             description |-> FillNa(r.description, DescriptionNotAvailable),
             required_skills |-> FillNa(r.required_skills, <<>>),
             education_requirement |-> FillNa(r.education_requirement, NotSpecified)]]

\* the combined_features column of _prepare_features
CombinedFeatures(r) ==
    FillNa(r.required_skills, <<>>) \o <<" ">> \o FillNa(r.sector, <<>>)
        \o <<" ">> \o FillNa(r.description, <<>>)

WithCombinedFeatures(rows) ==
    [i \in 1..Len(rows) |-> rows[i] @@ [combined_features |-> CombinedFeatures(rows[i])]]

Documents(df) == [i \in 1..Len(df) |-> df[i].combined_features]

\* vectorizer.fit_transform raises on a corpus without any term
FitRaises(df) == Vocabulary(Documents(df)) = {}

FitVectorizer(df) ==
    LET f == Fit(Documents(df))
    IN  [fitted |-> TRUE, vocabulary |-> f.vocabulary, idf |-> f.idf]

FitTransform(df) ==
    LET vec == FitVectorizer(df)
    IN  [i \in 1..Len(df) |-> Transform(vec, df[i].combined_features)]

(***************************************************************************)
(* _apply_filters.                                                         *)
(***************************************************************************)
education_mapping ==
    [high_school   |-> <<HighSchool, Diploma, Undergraduate, Graduate, Postgraduate>>,
     diploma       |-> <<Diploma, Undergraduate, Graduate, Postgraduate>>,
     undergraduate |-> <<Undergraduate, Graduate, Postgraduate>>,
     graduate      |-> <<Graduate, Postgraduate>>,
     postgraduate  |-> <<Postgraduate>>]

\* Series.str.contains('|'.join(patterns), case=False, na=False) on one
\* cell: some alternative occurs in the text, ignoring case
StrContains(text, patterns) ==
    /\ text # NaN
    /\ \E k \in DOMAIN patterns : Contains(Lower(patterns[k]), Lower(text))

\* the rows of df that satisfy the education mask, in catalog order, each
\* still labelled with its index in the catalog (catalog_row)
RECURSIVE EducationMask(_, _, _)
EducationMask(df, allowed, i) ==
    IF i > Len(df) THEN <<>>
    ELSE (IF StrContains(FillNa(df[i].education_requirement, <<>>), allowed)
          THEN <<df[i] @@ [catalog_row |-> i]>>
          ELSE <<>>) \o EducationMask(df, allowed, i + 1)

AllRows(df) == [i \in 1..Len(df) |-> df[i] @@ [catalog_row |-> i]]

\* _apply_filters without the fallback of lines 146-148
ApplyFiltersNoFallback(df, profile) ==
    LET allowed == IF profile.education_level \in DOMAIN education_mapping
                   THEN education_mapping[profile.education_level]
                   ELSE <<>>
    IN  [frame |-> IF allowed # <<>> THEN EducationMask(df, allowed, 1) ELSE AllRows(df),
         widened |-> FALSE]

\* _apply_filters: the candidate frame and whether the fallback was taken.
\* reset_index(drop=True) renumbers the rows 1..n by position; catalog_row
\* remembers the label that reset_index drops and no code reads it.
ApplyFilters(df, profile) ==
    LET allowed == IF profile.education_level \in DOMAIN education_mapping
                   THEN education_mapping[profile.education_level]
                   ELSE <<>>
        filtered_df == IF allowed # <<>> THEN EducationMask(df, allowed, 1)
                       ELSE AllRows(df)
    IN  IF Len(filtered_df) = 0
        THEN [frame |-> AllRows(df), widened |-> TRUE]
        ELSE [frame |-> filtered_df, widened |-> FALSE]

(***************************************************************************)
(* _score_internships and its helpers.  Scores are in thousandths.         *)
(***************************************************************************)
\* _calculate_skills_match with all() in place of any() on line 209
CalculateSkillsMatchAll(required_skills, user_skills) ==
    IF required_skills = NaN THEN 0
    ELSE LET parts == Split(required_skills, ",")
             required == [i \in 1..Len(parts) |-> Lower(Strip(parts[i]))]
             user == [i \in 1..Len(user_skills) |-> Lower(Strip(user_skills[i]))]
             matches == Cardinality({i \in 1..Len(required) :
                            \A j \in 1..Len(user) :
                                \/ Contains(required[i], user[j])
                                \/ Contains(user[j], required[i])})
         IN  IF Len(required) > 0
             THEN (matches * 20 * 1000) \div Len(required)
             ELSE 0

\* _calculate_skills_match
CalculateSkillsMatch(required_skills, user_skills) ==
    IF required_skills = NaN THEN 0
    ELSE LET parts == Split(required_skills, ",")
             required == [i \in 1..Len(parts) |-> Lower(Strip(parts[i]))]
             user == [i \in 1..Len(user_skills) |-> Lower(Strip(user_skills[i]))]
             matches == Cardinality({i \in 1..Len(required) :
                            \E j \in 1..Len(user) :
                                \/ Contains(required[i], user[j])
                                \/ Contains(user[j], required[i])})
         IN  IF Len(required) > 0
             THEN (matches * 20 * 1000) \div Len(required)
             ELSE 0

\* _calculate_experience_score
CalculateExperienceScore(user_experience) ==
    IF user_experience = 0 THEN 5
    ELSE IF user_experience <= 2 THEN 3
    ELSE 2

LocationScore(location, profile) ==
    IF Contains(Lower(profile.preferred_location), Lower(location)) THEN 20 ELSE 0

SectorScore(sector, profile) ==
    IF \E k \in DOMAIN profile.preferred_sectors :
           Contains(Lower(profile.preferred_sectors[k]), Lower(sector))
    THEN 15 ELSE 0

\* lines 161-168: the similarity column is the first len(scored_df) entries
\* of similarity_scores, padded with zeros when there are fewer
SimilarityColumn(n, sims) ==
    IF Len(sims) >= n THEN SubSeq(sims, 1, n)
    ELSE [i \in 1..n |-> IF i <= Len(sims) THEN sims[i] ELSE 0]

\* the weighted sum of lines 190-196
FinalScore(similarity, skills_match, location, sector, experience) ==
    similarity * 40 + skills_match * 25
        + location * 1000 + sector * 1000 + experience * 1000

\* the scored frame before sort_values
ScoreColumns(frame, profile, sims) ==
    LET column == SimilarityColumn(Len(frame), sims)
    IN  [i \in 1..Len(frame) |->
            LET row == frame[i]
                similarity_score == column[i]
                location_score == LocationScore(row.location, profile)
                sector_score == SectorScore(row.sector, profile)
                skills_match_score == CalculateSkillsMatch(row.required_skills, profile.skills)
                experience_score == CalculateExperienceScore(profile.experience_years)
            IN  row @@ [similarity_score |-> similarity_score,
                        location_score |-> location_score,
                        sector_score |-> sector_score,
                        skills_match_score |-> skills_match_score,
                        experience_score |-> experience_score,
                        final_score |-> FinalScore(similarity_score, skills_match_score,
                                           location_score, sector_score, experience_score)]]

\* sort_values('final_score', ascending=False) uses pandas' default
\* kind='quicksort', which is not stable: rows with equal final_score may
\* come out in any order.  The orders are sequences of positions.
RECURSIVE DescendingOrders(_, _)
DescendingOrders(frame, S) ==
    IF S = {} THEN {<<>>}
    ELSE LET top == {i \in S : \A j \in S : frame[i].final_score >= frame[j].final_score}
         IN  UNION {{<<i>> \o rest : rest \in DescendingOrders(frame, S \ {i})} : i \in top}

SortValues(frame) ==
    {[k \in 1..Len(frame) |-> frame[order[k]]] :
        order \in DescendingOrders(frame, 1..Len(frame))}

\* _score_internships: the frames sort_values can return
ScoreInternships(frame, profile, sims) == SortValues(ScoreColumns(frame, profile, sims))

\* head() that keeps one row too many
HeadRowsOneMore(frame, n) == SubSeq(frame, 1, Min(n + 1, Len(frame)))

\* DataFrame.head(n)
HeadRows(frame, n) == SubSeq(frame, 1, Min(n, Len(frame)))

(***************************************************************************)
(* _create_recommendation_object.  match_score is in tenths.               *)
(***************************************************************************)
\* round(x, 1) of a value in thousandths, ties to even
Round1(m) ==
    LET q == m \div 100
        r == m % 100
    IN  IF r > 50 \/ (r = 50 /\ q % 2 = 1) THEN q + 1 ELSE q

MatchReasons(row) ==
    LET reasons ==
            (IF row.skills_match_score > 10 * 1000 THEN <<"Strong skills alignment">> ELSE <<>>)
         \o (IF row.location_score > 0 THEN <<"Preferred location match">> ELSE <<>>)
         \o (IF row.sector_score > 0 THEN <<"Sector preference aligned">> ELSE <<>>)
         \o (IF row.similarity_score > 300 THEN <<"Content similarity high">> ELSE <<>>)
    IN  IF reasons = <<>> THEN <<"General compatibility">> ELSE reasons

\* match_score without the clamps of lines 239 and 280
MatchScoreUnclamped(final_score) == Round1((final_score * 100) \div 100)

\* lines 238-239 and 280: min(100, final_score / 100 * 100), then
\* round(max(0, min(100, match_score)), 1)
MatchScore(final_score) ==
    LET match_score == Min(100 * 1000, (final_score * 100) \div 100)
    IN  Round1(Max(0, Min(100 * 1000, match_score)))

\* safe_list: the non-empty stripped parts
SafeList(value) ==
    IF value = NaN THEN <<>>
    ELSE LET parts == Split(value, ",")
         IN  SelectSeq([i \in 1..Len(parts) |-> Strip(parts[i])], LAMBDA x : x # <<>>)

CreateRecommendationObject(row) ==
    [id |-> row.id,
     sector |-> Strip(row.sector),
     location |-> Strip(row.location),
     description |-> Strip(row.description),
     required_skills |-> SafeList(row.required_skills),
     education_requirement |-> Strip(row.education_requirement),
     match_score |-> MatchScore(row.final_score),
     match_reasons |-> MatchReasons(row)]

(***************************************************************************)
(* get_recommendations (engine) and the FastAPI handlers of main.py.       *)
(***************************************************************************)
\* number of rows get_recommendations keeps: scored_internships.head(5)
TopN == 5

\* lines 93-97: the query text, its vector and one cosine per index row
UserSkillsText(profile) == Join(profile.skills, <<" ">>) \o <<" ">> \o profile.field_of_study

SimilarityScores(vec, vectors, profile) ==
    LET user_vector == Transform(vec, UserSkillsText(profile))
    IN  [i \in 1..Len(vectors) |-> CosineSimilarity(user_vector, vectors[i])]

\* lines 108-113
Recommendations(scored) ==
    LET top_recommendations == HeadRows(scored, TopN)
    IN  [i \in 1..Len(top_recommendations) |->
            CreateRecommendationObject(top_recommendations[i])]

\* what the body of a handler's try block ends in
HTTPException(status_code, detail) ==
    [raised |-> TRUE, status_code |-> status_code, detail |-> detail, value |-> <<>>]
Return(value) ==
    [raised |-> FALSE, status_code |-> 200, detail |-> "", value |-> value]

\* main.py lines 78-83: `except Exception` catches whatever the try block
\* raised, the HTTPExceptions of lines 63 and 71 included (HTTPException is
\* an Exception), and raises HTTPException(500) in its place
RecommendResponse(outcome) ==
    IF outcome.raised
    THEN [op |-> "recommend", status_code |-> 500,
          detail |-> "Failed to generate recommendations", body |-> <<>>]
    ELSE [op |-> "recommend", status_code |-> 200, detail |-> "", body |-> outcome.value]

NoLocals ==
    /\ user_profile' = None
    /\ similarity_scores' = <<>>
    /\ filtered_internships' = <<>>
    /\ widened' = FALSE
    /\ scored_internships' = <<>>

\* load_data on one file: what the engine's fields become
LoadDataResult(file) ==
    IF ~file.readable
    THEN \* pd.read_csv raises before anything is assigned
         [raised |-> TRUE, assigned |-> FALSE, df |-> <<>>,
          vectorizer |-> Unfitted, vectors |-> <<>>]
    ELSE LET df == WithCombinedFeatures(ReadRows(file))
         IN  IF FitRaises(df)
             THEN \* internships_df is already assigned when fit_transform raises
                  [raised |-> TRUE, assigned |-> TRUE, df |-> df,
                   vectorizer |-> Unfitted, vectors |-> <<>>]
             ELSE [raised |-> FALSE, assigned |-> TRUE, df |-> df,
                   vectorizer |-> FitVectorizer(df), vectors |-> FitTransform(df)]

\* load_data is deterministic in the file; computed once per file
LoadDataTable == [file \in Files |-> LoadDataResult(file)]

Init ==
    /\ internships_df = None
    /\ vectorizer = Unfitted
    /\ skills_vectors = None
    /\ is_loaded = FALSE
    /\ user_profile = None
    /\ similarity_scores = <<>>
    /\ filtered_internships = <<>>
    /\ widened = FALSE
    /\ scored_internships = <<>>
    /\ response = [op |-> "none", status_code |-> 0, detail |-> "", body |-> <<>>]
    /\ load_pc = "idle"

\* RecommendationEngine.load_data, as startup_event calls it (the exception
\* it re-raises is caught and printed there)
LoadData(file) ==
    LET r == LoadDataTable[file]
    IN  /\ internships_df' = IF r.assigned THEN Some(r.df) ELSE internships_df
        /\ vectorizer' = IF r.raised THEN vectorizer ELSE r.vectorizer
        /\ skills_vectors' = IF r.raised THEN skills_vectors ELSE Some(r.vectors)
        /\ is_loaded' = ~r.raised
        /\ response' = [op |-> "load_data", status_code |-> 0,
                        detail |-> IF r.raised THEN "raised" ELSE "loaded",
                        body |-> <<>>]
        /\ NoLocals
        /\ UNCHANGED load_pc

\* POST /recommend where the ranked frame is written back to the engine
\* (the frames of _apply_filters and _score_internships are the engine's own
\* DataFrame, not copies)
RecommendInPlace(profile) ==
    /\ user_profile' = Some(profile)
    /\ UNCHANGED <<vectorizer, skills_vectors, is_loaded>>
    /\ UNCHANGED load_pc
    /\ IF ~is_loaded
       THEN /\ response' = RecommendResponse(HTTPException(503,
                               "Recommendation service is not ready"))
            /\ similarity_scores' = <<>>
            /\ filtered_internships' = <<>>
            /\ widened' = FALSE
            /\ scored_internships' = <<>>
            /\ UNCHANGED internships_df
       ELSE LET sims == SimilarityScores(vectorizer, skills_vectors[1], profile)
                filtered == ApplyFilters(internships_df[1], profile)
            IN  \E scored \in ScoreInternships(filtered.frame, profile, sims) :
                    LET recommendations == Recommendations(scored)
                    IN  /\ similarity_scores' = sims
                        /\ filtered_internships' = filtered.frame
                        /\ widened' = filtered.widened
                        /\ scored_internships' = scored
                        /\ internships_df' = Some([k \in 1..Len(scored) |->
                               internships_df[1][scored[k].catalog_row]])
                        /\ response' = RecommendResponse(
                               IF recommendations = <<>>
                               THEN HTTPException(404, "No suitable internships found")
                               ELSE Return(recommendations))

\* POST /recommend: main.py get_recommendations with the engine's
\* get_recommendations inlined
Recommend(profile) ==
    /\ user_profile' = Some(profile)
    /\ UNCHANGED engine
    /\ UNCHANGED load_pc
    /\ IF ~is_loaded
       THEN \* main.py line 62 (and line 88 of the engine behind it)
            /\ response' = RecommendResponse(HTTPException(503,
                               "Recommendation service is not ready"))
            /\ similarity_scores' = <<>>
            /\ filtered_internships' = <<>>
            /\ widened' = FALSE
            /\ scored_internships' = <<>>
       ELSE LET sims == SimilarityScores(vectorizer, skills_vectors[1], profile)
                filtered == ApplyFilters(internships_df[1], profile)
            IN  \E scored \in ScoreInternships(filtered.frame, profile, sims) :
                    LET recommendations == Recommendations(scored)
                    IN  /\ similarity_scores' = sims
                        /\ filtered_internships' = filtered.frame
                        /\ widened' = filtered.widened
                        /\ scored_internships' = scored
                        /\ response' = RecommendResponse(
                               IF recommendations = <<>>
                               THEN HTTPException(404, "No suitable internships found")
                               ELSE Return(recommendations))

\* get_available_sectors / get_available_locations: sorted unique values,
\* modelled as the set of values; [] when not loaded
GetAvailableSectors ==
    IF ~is_loaded THEN {}
    ELSE {internships_df[1][i].sector : i \in 1..Len(internships_df[1])} \ {NaN}

GetAvailableLocations ==
    IF ~is_loaded THEN {}
    ELSE {internships_df[1][i].location : i \in 1..Len(internships_df[1])} \ {NaN}

\* GET /sectors
Sectors ==
    /\ response' = [op |-> "sectors", status_code |-> 200, detail |-> "",
                    body |-> GetAvailableSectors]
    /\ NoLocals
    /\ UNCHANGED engine
    /\ UNCHANGED load_pc

\* GET /locations
Locations ==
    /\ response' = [op |-> "locations", status_code |-> 200, detail |-> "",
                    body |-> GetAvailableLocations]
    /\ NoLocals
    /\ UNCHANGED engine
    /\ UNCHANGED load_pc

\* GET /health
Health ==
    /\ response' = [op |-> "health", status_code |-> 200, detail |-> "",
                    body |-> [data_loaded |-> is_loaded,
                              total_internships |->
                                  IF is_loaded THEN Len(internships_df[1]) ELSE 0]]
    /\ NoLocals
    /\ UNCHANGED engine
    /\ UNCHANGED load_pc

Next ==
    \/ \E file \in Files : LoadData(file)
    \/ \E profile \in Profiles : Recommend(profile)
    \/ Sectors
    \/ Locations
    \/ Health

Spec == Init /\ [][Next]_vars

(***************************************************************************)
(* load_data statement by statement, for a reload that runs while requests *)
(* are being served.  The engine has no lock and load_data does not clear  *)
(* is_loaded before it starts, so the other operations can run between     *)
(* any two of its steps.                                                   *)
(***************************************************************************)
\* the files a step-by-step load reads
ReloadFiles ==
    {Unreadable, CsvFile(<<>>), CsvFile(<<Posting1>>), CsvFile(<<Posting3, Posting1>>),
     CsvFile(<<Posting1, Posting2>>), CsvFile(StopWordCatalog)}

LoadRaised ==
    /\ is_loaded' = FALSE
    /\ load_pc' = "idle"
    /\ response' = [op |-> "load_data", status_code |-> 0, detail |-> "raised",
                    body |-> <<>>]
    /\ NoLocals

\* lines 25-58: pd.read_csv assigns internships_df (or raises), then the
\* columns are normalised
LoadRead(file) ==
    /\ load_pc = "idle"
    /\ UNCHANGED <<vectorizer, skills_vectors>>
    /\ IF ~file.readable
       THEN /\ UNCHANGED internships_df
            /\ LoadRaised
       ELSE /\ internships_df' = Some(ReadRows(file))
            /\ load_pc' = "read"
            /\ UNCHANGED <<is_loaded, response>>
            /\ UNCHANGED locals

\* line 61, _prepare_features: the combined_features column, then
\* fit_transform (which raises on an empty vocabulary)
LoadPrepare ==
    /\ load_pc = "read"
    /\ LET df == WithCombinedFeatures(internships_df[1])
       IN  /\ internships_df' = Some(df)
           /\ IF FitRaises(df)
              THEN /\ UNCHANGED <<vectorizer, skills_vectors>>
                   /\ LoadRaised
              ELSE /\ vectorizer' = FitVectorizer(df)
                   /\ skills_vectors' = Some(FitTransform(df))
                   /\ load_pc' = "prepared"
                   /\ UNCHANGED <<is_loaded, response>>
                   /\ UNCHANGED locals

\* line 62: self.is_loaded = True
LoadFinish ==
    /\ load_pc = "prepared"
    /\ is_loaded' = TRUE
    /\ load_pc' = "idle"
    /\ UNCHANGED <<internships_df, vectorizer, skills_vectors>>
    /\ response' = [op |-> "load_data", status_code |-> 0, detail |-> "loaded",
                    body |-> <<>>]
    /\ NoLocals

NextReload ==
    \/ \E file \in ReloadFiles : LoadRead(file)
    \/ LoadPrepare
    \/ LoadFinish
    \/ \E profile \in Profiles : Recommend(profile)
    \/ Sectors
    \/ Locations
    \/ Health

SpecReload == Init /\ [][NextReload]_vars

(***************************************************************************)
(* Properties.                                                             *)
(***************************************************************************)
\* the last operation was a recommendation request served by a ready engine
Served == response.op = "recommend" /\ is_loaded

Catalog == internships_df[1]

\* C1: a request served by a loaded engine returns min(5, number of
\* candidates after the eligibility filter) recommendations, in
\* non-increasing order of match_score.
C1_TopFiveByMatchScore ==
    Served =>
        /\ response.status_code = 200
        /\ Len(response.body) =
               (IF Len(filtered_internships) < 5 THEN Len(filtered_internships) ELSE 5)
        /\ \A i \in 1..(Len(response.body) - 1) :
               response.body[i].match_score >= response.body[i + 1].match_score

\* more than 5 candidates were ranked, 5 came back, with differing scores
C1_Witness ==
    /\ Served
    /\ Len(filtered_internships) > 5
    /\ Len(response.body) = 5
    /\ response.body[1].match_score > response.body[5].match_score

\* C2: two returned recommendations with equal match_score appear in the
\* order of their rows in the catalog (the ranking is stable).
C2_TiesKeepCatalogOrder ==
    Served =>
        \A i \in 1..Len(response.body) : \A j \in 1..Len(response.body) :
            (i < j /\ response.body[i].match_score = response.body[j].match_score)
                => scored_internships[i].catalog_row < scored_internships[j].catalog_row

\* C3: every scored candidate's similarity_score is the cosine similarity of
\* the query with that candidate's own row of the index.
C3_SimilarityIsOwnRow ==
    Served =>
        \A k \in 1..Len(scored_internships) :
            scored_internships[k].similarity_score
                = similarity_scores[scored_internships[k].catalog_row]

\* C4: for a graduate or postgraduate profile the education mask itself (not
\* the fallback) keeps every posting that requires "Undergraduate".
C4_HigherLevelPassesUndergraduate ==
    (Served /\ user_profile[1].education_level \in {"graduate", "postgraduate"}) =>
        \A i \in 1..Len(Catalog) :
            Catalog[i].education_requirement = Undergraduate =>
                /\ ~widened
                /\ \E k \in 1..Len(filtered_internships) :
                       filtered_internships[k].catalog_row = i

\* no row of the catalog passes the education mask of the profile
NoRowPasses(df, profile) ==
    EducationMask(df, education_mapping[profile.education_level], 1) = <<>>

\* C5: when no posting of the catalog passes the education mask, the
\* candidates are the entire catalog in catalog order and the request
\* returns min(5, catalog size) recommendations drawn from it.
C5_WideningServesWholeCatalog ==
    (Served /\ NoRowPasses(Catalog, user_profile[1])) =>
        /\ Len(filtered_internships) = Len(Catalog)
        /\ \A i \in 1..Len(Catalog) :
               /\ filtered_internships[i].catalog_row = i
               /\ filtered_internships[i].id = Catalog[i].id
               /\ filtered_internships[i].education_requirement
                      = Catalog[i].education_requirement
        /\ response.status_code = 200
        /\ Len(response.body) = (IF Len(Catalog) < 5 THEN Len(Catalog) ELSE 5)
        /\ \A k \in 1..Len(response.body) :
               response.body[k].id = Catalog[scored_internships[k].catalog_row].id

\* the fallback served a catalog of more than 5 rows
C5_Witness ==
    /\ Served
    /\ NoRowPasses(Catalog, user_profile[1])
    /\ widened
    /\ Len(Catalog) > 5
    /\ Len(response.body) = 5

\* the response of main.py when the recommendation list is empty (line 70)
EmptyResultResponse ==
    RecommendResponse(HTTPException(404, "No suitable internships found"))

\* C6: a recommend call made while the engine is not ready ends in an error
\* outcome distinct from the one of a call whose pipeline yields zero
\* candidates.
C6_NotReadyDistinctFromEmptyResult ==
    (response.op = "recommend" /\ ~is_loaded) =>
        response.status_code # EmptyResultResponse.status_code

DependentOperations == {"recommend", "sectors", "locations"}

\* C7: right after a load_data call either the engine is ready with the
\* whole catalog and an index row per record, or it is not ready and the
\* dependent operation that comes next reports service unavailable (503).
C7_LoadIsAtomic ==
    [][response.op = "load_data" =>
          \/ /\ is_loaded
             /\ internships_df # None
             /\ skills_vectors # None
             /\ vectorizer.fitted
             /\ Len(skills_vectors[1]) = Len(internships_df[1])
          \/ /\ ~is_loaded
             /\ (response'.op \in DependentOperations => response'.status_code = 503)
      ]_vars

\* C8: with a catalog of zero rows a recommend request ends on the
\* empty-result path: 404, or 200 with an empty list.
C8_EmptyCatalogGivesEmptyResult ==
    (response.op = "recommend" /\ internships_df # None /\ Len(internships_df[1]) = 0) =>
        \/ response.status_code = 404
        \/ response.status_code = 200 /\ response.body = <<>>

\* C9: every returned match_score (in tenths) lies in [0, 100] and is the
\* weighted sum of the candidate's five sub-scores, clamped to [0, 100] and
\* rounded to one decimal.
C9_MatchScoreIsClampedWeightedSum ==
    Served =>
        \A k \in 1..Len(response.body) :
            LET row == scored_internships[k]
                sum == row.similarity_score * 40 + row.skills_match_score * 25
                           + 1000 * (row.location_score + row.sector_score
                                         + row.experience_score)
                match_score == response.body[k].match_score
            IN  /\ row.final_score = sum
                /\ match_score >= 0
                /\ match_score <= 1000
                /\ IF sum >= 100 * 1000 THEN match_score = 1000
                   ELSE /\ match_score * 100 - sum <= 50
                        /\ sum - match_score * 100 <= 50

\* one returned score was clamped to 100 and another was rounded
C9_Witness ==
    /\ Served
    /\ \E k \in 1..Len(response.body) :
           /\ scored_internships[k].final_score > 100 * 1000
           /\ response.body[k].match_score = 1000
    /\ \E k \in 1..Len(response.body) :
           /\ scored_internships[k].final_score < 100 * 1000
           /\ scored_internships[k].final_score % 100 # 0
           /\ response.body[k].match_score < 1000

\* the scored row of catalog row c when the last request is repeated with
\* skill added to the profile's skills (the education filter does not read
\* the skills, so the candidates are the same)
RescoredWith(skill, c) ==
    LET profile == [user_profile[1] EXCEPT !.skills = Append(@, skill)]
        sims == SimilarityScores(vectorizer, skills_vectors[1], profile)
        frame == ScoreColumns(filtered_internships, profile, sims)
    IN  frame[CHOOSE j \in 1..Len(frame) : frame[j].catalog_row = c]

\* C10 as stated: adding to the profile a skill equal to one of a posting's
\* required skills does not decrease that posting's final_score.
C10_AddedSkillKeepsFinalScore ==
    Served =>
        \A k \in 1..Len(scored_internships) :
            LET row == scored_internships[k]
                required == SafeList(row.required_skills)
            IN  \A n \in 1..Len(required) :
                    RescoredWith(required[n], row.catalog_row).final_score
                        >= row.final_score

\* C10 amended: adding to the profile a skill equal to one of a posting's
\* required skills does not decrease that posting's skills_match_score.
C10_AddedSkillKeepsSkillsMatch ==
    Served =>
        \A k \in 1..Len(scored_internships) :
            LET row == scored_internships[k]
                required == SafeList(row.required_skills)
            IN  \A n \in 1..Len(required) :
                    RescoredWith(required[n], row.catalog_row).skills_match_score
                        >= row.skills_match_score

\* a candidate whose skills_match_score rises when one of its required
\* skills is added to the profile
C10_Witness ==
    /\ Served
    /\ \E k \in 1..Len(scored_internships) :
           LET row == scored_internships[k]
               required == SafeList(row.required_skills)
           IN  \E n \in 1..Len(required) :
                   RescoredWith(required[n], row.catalog_row).skills_match_score
                       > row.skills_match_score

\* C11: skills_match_score is 0 for a posting without required skills
\* (required_skills empty after load), whatever the profile's skills;
\* otherwise it is the share of the required skills that match some user
\* skill by case-insensitive substring in either direction, times 20.
C11_SkillsMatchScoreValue ==
    Served =>
        \A k \in 1..Len(scored_internships) :
            LET row == scored_internships[k]
                parts == Split(row.required_skills, ",")
                user == user_profile[1].skills
                matched == {i \in 1..Len(parts) :
                               \E j \in 1..Len(user) :
                                   \/ Contains(Lower(Strip(parts[i])), Lower(Strip(user[j])))
                                   \/ Contains(Lower(Strip(user[j])), Lower(Strip(parts[i])))}
            IN  IF row.required_skills = <<>>
                THEN row.skills_match_score = 0
                ELSE row.skills_match_score
                         = (Cardinality(matched) * 20 * 1000) \div Len(parts)

\* C12: when the similarity result and the candidate set differ in length
\* the request fails with an error (no truncation, no padding with zeros).
C12_LengthMismatchFails ==
    (Served /\ Len(similarity_scores) # Len(filtered_internships)) =>
        response.status_code # 200

\* C13: a recommendation request, whether it returns or raises, leaves the
\* engine's catalog (rows, order, columns), its index (vectorizer,
\* skills_vectors) and is_loaded unchanged.
C13_RequestLeavesEngineUnchanged ==
    [][response'.op = "recommend" =>
          /\ internships_df' = internships_df
          /\ vectorizer' = vectorizer
          /\ skills_vectors' = skills_vectors
          /\ is_loaded' = is_loaded
      ]_vars

\* a request was served whose filter dropped rows and whose ranking is not
\* the catalog order, and the catalog still has every row, in load order
C13_Witness ==
    /\ Served
    /\ response.status_code = 200
    /\ Len(filtered_internships) < Len(Catalog)
    /\ \E k \in 1..Len(scored_internships) : scored_internships[k].catalog_row # k
    /\ Len(skills_vectors[1]) = Len(Catalog)

\* C14: whenever is_loaded is true, also between the steps of a reload,
\* skills_vectors is the index fitted from the current internships_df, with
\* one row per catalog record.
C14_IndexBelongsToCatalog ==
    is_loaded =>
        /\ internships_df # None
        /\ skills_vectors # None
        /\ Len(skills_vectors[1]) = Len(internships_df[1])
        /\ LET df == WithCombinedFeatures(internships_df[1])
           IN  /\ ~FitRaises(df)
               /\ vectorizer = FitVectorizer(df)
               /\ skills_vectors[1] = FitTransform(df)

====
